---- MODULE Spec2Model ----
(***************************************************************************)
(* A model of GameOfLife.py: the generation step (updateGrid, findNeighbors,*)
(* checkArray), the padding (addSpace), the driver (__main__,               *)
(* createAnimation, saveRLE) and the RLE codec (findBoundaries, encodeGrid, *)
(* writeRLE, parseRLE).                                                     *)
(*                                                                         *)
(* A grid is a sequence of rows, a row a sequence of 0/1 cells.  The source *)
(* indexes from 0; operators that take a row or column index take the       *)
(* source's 0-based index and add 1 when they touch the sequence.  Text is  *)
(* a sequence of one-character strings.                                     *)
(***************************************************************************)
EXTENDS Integers, Sequences, FiniteSets, TLC

VARIABLES
    pc,             \* where the program is
    heap,           \* the arrays: heap[k] is the content of array k
    initialGrid,    \* __main__: the array parseInput returned
    startingState,  \* __main__: the global saveRLE writes
    grid,           \* createAnimation: the array the loop updates
    gridSize,       \* the grid size the user entered
    generations,    \* the generation count the user entered
    i,              \* createAnimation: generations done
    extraSpace,     \* the extraSpace createAnimation gave addSpace
    save,           \* saveRLE: the user's answer
    arg,            \* the input: the grid first read, or the rule line's x, y
    argN,           \* the extraSpace argument of a direct addSpace call
    result,         \* what addSpace, updateGrid or findBoundaries returned
    file,           \* the text of the RLE file
    decoded,        \* what parseRLE returned
    raggedRaises    \* the numpy in use: np.array raises on unequal rows

vars == <<pc, heap, initialGrid, startingState, grid, gridSize, generations,
          i, extraSpace, save, arg, argN, result, file, decoded, raggedRaises>>

driverVars == <<heap, initialGrid, startingState, grid, gridSize, generations,
                i, extraSpace, save>>

(***************************************************************************)
(* Bounds of the model.                                                     *)
(***************************************************************************)
\* SpecGrid: grids of at most MaxCells cells (so 3 x 3 is included).
MaxCells == 9
\* SpecGrid: the largest extraSpace handed to addSpace.
MaxExtraSpace == 2
\* Spec (the driver): input grids of at most MaxInCells cells.
MaxInCells == 4
\* Spec: the largest grid size and generation count the user enters.
MaxGridSize == 3
MaxGenerations == 2
\* SpecCodec: the wide rows start with LineLimit - WideUnder up to
\* LineLimit + WideOver single cells, go on with a run of 1, 2 or WideRun
\* cells and end with up to WideTail single cells.
WideUnder == 4
WideOver == 1
WideRun == 10
WideTail == 2
\* SpecParse: the rule line's x and y, and the length of the text after it.
MaxHeaderX == 3
MaxHeaderY == 2
MaxBodyLen == 4

(***************************************************************************)
(* Grids.                                                                   *)
(***************************************************************************)
Rows(g) == Len(g)
Cols(g) == Len(g[1])

Max(a, b) == IF a >= b THEN a ELSE b
Abs(a) == IF a < 0 THEN -a ELSE a

\* All rows x cols grids of 0/1 cells.
GridsOf(rows, cols) == [1..rows -> [1..cols -> {0, 1}]]

\* All grids with at least one row and one column and at most n cells.
GridsUpTo(n) ==
    UNION {GridsOf(rc[1], rc[2]) :
             rc \in {p \in (1..n) \X (1..n) : p[1] * p[2] <= n}}

HasLive(g) == \E r \in 1..Rows(g) : \E c \in 1..Cols(g) : g[r][c] = 1

\* numpy indexing of an axis of length n with index k: the 1-based position,
\* or 0 for IndexError.  A negative index down to -n counts from the end.
npIndex(n, k) ==
    IF k >= 0 /\ k < n THEN k + 1
    ELSE IF k < 0 /\ k >= -n THEN n + k + 1
    ELSE 0

\* checkArray without the remapping of negative indices.
checkArray_noRemap(g, r, c) ==
    LET rp == npIndex(Rows(g), r)
        cp == npIndex(Cols(g), c)
    IN IF rp = 0 \/ cp = 0 THEN 0 ELSE g[rp][cp]

checkArray(g, r, c) ==
    LET r1 == IF r < 0 THEN Rows(g) + 1 ELSE r
        c1 == IF c < 0 THEN Cols(g) + 1 ELSE c
        rp == npIndex(Rows(g), r1)
        cp == npIndex(Cols(g), c1)
    IN IF rp = 0 \/ cp = 0 THEN 0 ELSE g[rp][cp]

findNeighbors(g, r, c) ==
    checkArray(g, r-1, c-1) + checkArray(g, r-1, c) +
    checkArray(g, r-1, c+1) + checkArray(g, r+1, c-1) +
    checkArray(g, r+1, c) + checkArray(g, r+1, c+1) +
    checkArray(g, r, c-1) + checkArray(g, r, c+1)

\* The body of updateGrid's double loop for cell (r, c), 0-based.
nextState(g, r, c) ==
    LET nAlive == findNeighbors(g, r, c)
    IN IF g[r+1][c+1] = 1
       THEN (IF nAlive < 2 \/ nAlive > 3 THEN 0 ELSE 1)
       ELSE (IF nAlive = 3 THEN 1 ELSE 0)

\* updateGrid: nextGrid is a copy, every nextState is computed from grid,
\* and grid[:] = nextGrid[:] stores the result in the array it was given.
updateGrid(g) ==
    [r \in 1..Rows(g) |-> [c \in 1..Cols(g) |-> nextState(g, r-1, c-1)]]

ZeroRow(n) == [c \in 1..n |-> 0]

\* One pass of addSpace's loop, with the second column appended on the right
\* again instead of on the left.
appendRing_rightTwice(g) ==
    LET below == Append(g, ZeroRow(Cols(g)))
        above == <<ZeroRow(Cols(below))>> \o below
        right == [r \in 1..Rows(above) |-> Append(above[r], 0)]
    IN [r \in 1..Rows(right) |-> Append(right[r], 0)]

\* One pass of addSpace's loop: a dead row below, a dead row above, a dead
\* column on the right, a dead column on the left.
appendRing(g) ==
    LET below == Append(g, ZeroRow(Cols(g)))
        above == <<ZeroRow(Cols(below))>> \o below
        right == [r \in 1..Rows(above) |-> Append(above[r], 0)]
    IN [r \in 1..Rows(right) |-> <<0>> \o right[r]]

RECURSIVE addSpace(_, _)
addSpace(g, n) ==
    IF n <= 0 THEN g ELSE addSpace(appendRing(g), n - 1)

(***************************************************************************)
(* Loops.                                                                   *)
(***************************************************************************)
\* f(value), with value evaluated once, before f uses it.
once(value, f(_)) == CHOOSE r \in {f(v) : v \in {value}} : TRUE

\* The state after
\*     for k in range(lo, hi + 1): st = body(env, st, k)
\* where env holds what the body reads and a state with brk = TRUE has left
\* the loop (break, or an exception).  The range is run in two halves, the
\* first before the second, which keeps the evaluation shallow on long rows
\* and texts.
RECURSIVE loop(_, _, _, _, _)
loop(body(_, _, _), env, lo, hi, st) ==
    IF lo > hi \/ st.brk THEN st
    ELSE IF lo = hi THEN body(env, st, lo)
    ELSE once(loop(body, env, lo, (lo + hi) \div 2, st),
              LAMBDA h : IF h.brk THEN h
                         ELSE loop(body, env, ((lo + hi) \div 2) + 1, hi, h))

forRange(body(_, _, _), env, lo, hi, st) ==
    once(<<env, lo, hi, st>>, LAMBDA a : loop(body, a[1], a[2], a[3], a[4]))

(***************************************************************************)
(* Text: Python's str, int, strip and split on sequences of characters.     *)
(***************************************************************************)
DigitChars == <<"0", "1", "2", "3", "4", "5", "6", "7", "8", "9">>
Whitespace == {" ", "\n", "\t"}

\* str(n) of an int.
RECURSIVE str(_)
str(n) ==
    IF n < 0 THEN <<"-">> \o str(-n)
    ELSE IF n < 10 THEN <<DigitChars[n + 1]>>
    ELSE str(n \div 10) \o <<DigitChars[(n % 10) + 1]>>

DigitValue(ch) == CHOOSE d \in 0..9 : DigitChars[d + 1] = ch
IsDigit(ch) == \E d \in 0..9 : DigitChars[d + 1] = ch

\* s without its leading and trailing whitespace.
strip(s) ==
    once(s, LAMBDA t :
        LET kept == {k \in 1..Len(t) : t[k] \notin Whitespace}
        IN IF kept = {} THEN <<>>
           ELSE SubSeq(t, CHOOSE k \in kept : \A m \in kept : k <= m,
                          CHOOSE k \in kept : \A m \in kept : k >= m))

digitsValue(s) ==
    forRange(LAMBDA ds, st, k :
                 [brk |-> FALSE, v |-> 10 * st.v + DigitValue(ds[k])],
             s, 1, Len(s), [brk |-> FALSE, v |-> 0]).v

\* int(s): surrounding whitespace is dropped, one sign is allowed, and the
\* rest must be decimal digits; anything else is ValueError (ok = FALSE).
int(s) ==
    once(strip(s), LAMBDA t :
        LET signed == t # <<>> /\ t[1] \in {"-", "+"}
            ds == IF signed THEN Tail(t) ELSE t
        IN IF ds # <<>> /\ \A k \in 1..Len(ds) : IsDigit(ds[k])
           THEN [ok |-> TRUE,
                 v |-> IF signed /\ t[1] = "-" THEN -digitsValue(ds)
                       ELSE digitsValue(ds)]
           ELSE [ok |-> FALSE, v |-> 0])

\* The pieces of s between the characters of seps (str.split with one
\* separator, re.split with a character class): always at least one piece.
splitOn(s, seps) ==
    once(forRange(
            LAMBDA e, st, k :
                IF e[1][k] \in e[2]
                THEN [brk |-> FALSE, pieces |-> Append(st.pieces, st.cur),
                      cur |-> <<>>]
                ELSE [brk |-> FALSE, pieces |-> st.pieces,
                      cur |-> Append(st.cur, e[1][k])],
            <<s, seps>>, 1, Len(s),
            [brk |-> FALSE, pieces |-> <<>>, cur |-> <<>>]),
         LAMBDA st : Append(st.pieces, st.cur))

split(s, sep) == splitOn(s, {sep})

\* The lines a text file yields when iterated: each ends at its line break,
\* and a last line without one is yielded if it is not empty.
fileLines(text) ==
    once(split(text, "\n"), LAMBDA pieces :
        IF pieces[Len(pieces)] = <<>>
        THEN SubSeq(pieces, 1, Len(pieces) - 1)
        ELSE pieces)

concat(ss) ==
    forRange(LAMBDA e, st, k : [brk |-> FALSE, v |-> st.v \o e[k]],
             ss, 1, Len(ss), [brk |-> FALSE, v |-> <<>>]).v

(***************************************************************************)
(* math.inf and -math.inf beside the ints, for minCol and maxCol.           *)
(***************************************************************************)
Fin(n) == [inf |-> 0, v |-> n]
PosInf == [inf |-> 1, v |-> 0]
NegInf == [inf |-> -1, v |-> 0]

\* a < b
xlt(a, b) == a.inf < b.inf \/ (a.inf = 0 /\ b.inf = 0 /\ a.v < b.v)

xstr(a) ==
    IF a.inf = 1 THEN <<"i", "n", "f">>
    ELSE IF a.inf = -1 THEN <<"-", "i", "n", "f">>
    ELSE str(a.v)

(***************************************************************************)
(* findBoundaries.                                                          *)
(***************************************************************************)
sum(row) ==
    forRange(LAMBDA e, st, k : [brk |-> FALSE, v |-> st.v + e[k]],
             row, 1, Len(row), [brk |-> FALSE, v |-> 0]).v

\* for top in range(grid.shape[0]): if sum(grid[top]) > 0: break
topScan(g) ==
    forRange(LAMBDA e, st, top : [brk |-> sum(e[top + 1]) > 0, top |-> top],
             g, 0, Rows(g) - 1, [brk |-> FALSE, top |-> 0]).top

\* for bot in range(grid.shape[0]-1, -1, -1): if sum(grid[bot]) > 0: break
\* (the k-th pass of the loop has bot = shape[0] - 1 - k)
botScan(g) ==
    forRange(LAMBDA e, st, k :
                 [brk |-> sum(e[Rows(e) - k]) > 0, bot |-> Rows(e) - 1 - k],
             g, 0, Rows(g) - 1, [brk |-> FALSE, bot |-> 0]).bot

\* The body of the loop over the columns of one row.
colStep(g, row, col, st) ==
    IF g[row + 1][col + 1] = 1
    THEN IF xlt(Fin(col), st.minCol)
         THEN [brk |-> FALSE, minCol |-> Fin(col), maxCol |-> st.maxCol]
         ELSE IF xlt(st.maxCol, Fin(col))
              THEN [brk |-> FALSE, minCol |-> st.minCol, maxCol |-> Fin(col)]
              ELSE st
    ELSE st

\* The body of the loop over the rows top..bot, with its early break.
rowStep(g, row, st) ==
    once(forRange(LAMBDA e, t, col : colStep(e[1], e[2], col, t),
                  <<g, row>>, 0, Cols(g) - 1, st),
         LAMBDA m :
            [brk |-> m.minCol = Fin(0) /\ m.maxCol = Fin(Cols(g) - 1),
             minCol |-> m.minCol, maxCol |-> m.maxCol])

findBoundaries(g) ==
    once(<<topScan(g), botScan(g)>>, LAMBDA tb :
        once(forRange(LAMBDA e, st, row : rowStep(e, row, st),
                      g, tb[1], tb[2],
                      [brk |-> FALSE, minCol |-> PosInf, maxCol |-> NegInf]),
             LAMBDA m :
                [top |-> tb[1], bot |-> tb[2],
                 minCol |-> m.minCol, maxCol |-> m.maxCol]))

(***************************************************************************)
(* encodeGrid and writeRLE.                                                 *)
(***************************************************************************)
\* The longest line writeRLE writes.
LineLimit == 70

\* rowString of encodeGrid for one row.
rowString(g, row, minCol, maxCol) ==
    [k \in 1..(maxCol - minCol + 1) |->
        IF g[row + 1][minCol + k] = 1 THEN "o" ELSE "b"]

\* [(label, sum(1 for _ in group)) for label, group in groupby(rowString)]
groupby(s) ==
    forRange(
        LAMBDA e, st, k :
            LET n == Len(st.groups)
            IN IF n > 0 /\ st.groups[n][1] = e[k]
               THEN [brk |-> FALSE,
                     groups |-> [st.groups EXCEPT ![n] = <<e[k], @[2] + 1>>]]
               ELSE [brk |-> FALSE, groups |-> Append(st.groups, <<e[k], 1>>)],
        s, 1, Len(s), [brk |-> FALSE, groups |-> <<>>]).groups

encodeGrid(g, top, bot, minCol, maxCol) ==
    forRange(
        LAMBDA e, st, row :
            [brk |-> FALSE,
             encodedStrings |->
                 st.encodedStrings
                 \o groupby(rowString(e.grid, row, e.minCol, e.maxCol))
                 \o <<IF row # e.bot THEN <<"$", 1>> ELSE <<"!", 1>>>>],
        [grid |-> g, bot |-> bot, minCol |-> minCol, maxCol |-> maxCol],
        top, bot, [brk |-> FALSE, encodedStrings |-> <<>>]).encodedStrings

\* The text of one group as writeRLE writes it.
tokenText(group) ==
    IF group[2] = 1 THEN <<group[1]>> ELSE str(group[2]) \o <<group[1]>>

\* The wrap test with the length of the token left out.
startsNewLine_lineOnly(group, individualLine) ==
    Len(individualLine) > LineLimit

\* The two wrap tests of writeRLE, for a single cell and for a counted run.
startsNewLine(group, individualLine) ==
    IF group[2] = 1
    THEN 1 + Len(individualLine) > LineLimit
    ELSE Len(str(group[2])) + Len(individualLine) + 1 > LineLimit

\* One pass of writeRLE's while loop at position pos: written is what
\* f.write has been given so far.  The dead run before the final '!' is
\* passed over; the last position writes the line in hand.
writeStep(RLEgroups, pos, st) ==
    IF pos = Len(RLEgroups) - 2 /\ RLEgroups[pos + 1][1] = "b" THEN st
    ELSE LET group == RLEgroups[pos + 1]
             wrap == startsNewLine(group, st.individualLine)
             written == IF wrap
                        THEN st.written \o st.individualLine \o <<"\n">>
                        ELSE st.written
             line == IF wrap THEN tokenText(group)
                     ELSE st.individualLine \o tokenText(group)
         IN IF pos = Len(RLEgroups) - 1
            THEN [brk |-> TRUE, individualLine |-> line,
                  written |-> written \o line]
            ELSE [brk |-> FALSE, individualLine |-> line, written |-> written]

\* The while loop of writeRLE: pos runs from 0 to len(RLEgroups) - 1.
writeLoop(RLEgroups) ==
    forRange(LAMBDA e, st, pos : writeStep(e, pos, st),
             RLEgroups, 0, Len(RLEgroups) - 1,
             [brk |-> FALSE, individualLine |-> <<>>, written |-> <<>>]).written

headerText(width, height) ==
    <<"x", " ", "=", " ">> \o width \o <<",", " ", "y", " ", "=", " ">>
    \o height \o <<"\n">>

\* writeRLE: the text the file holds afterwards, and whether the call raised.
\* With minCol or maxCol infinite the header's width is -inf (maxCol is
\* -inf, or minCol is inf), and then either range(minCol, maxCol + 1) raises
\* TypeError in encodeGrid or, when top > bot, RLEgroups is empty and
\* RLEgroups[0] raises IndexError: the header is all that is written.
writeRLE(g) ==
    once(findBoundaries(g), LAMBDA b :
        LET finite == b.minCol.inf = 0 /\ b.maxCol.inf = 0
            width == IF finite THEN str(b.maxCol.v - b.minCol.v + 1)
                     ELSE xstr(NegInf)
            header == headerText(width, str(b.bot - b.top + 1))
        IN IF ~finite
           THEN [status |-> "raise", text |-> header]
           ELSE [status |-> "ok",
                 text |-> header \o
                     writeLoop(encodeGrid(g, b.top, b.bot,
                                          b.minCol.v, b.maxCol.v))])

(***************************************************************************)
(* parseRLE.                                                                *)
(***************************************************************************)
Unbound == [bound |-> FALSE, v |-> 0]
Bound(n) == [bound |-> TRUE, v |-> n]

\* int(chunks[k].strip().split('=')[1]) of the rule line: IndexError when
\* the chunk or its second part is missing, ValueError when it is no int.
headerValue(chunks, k) ==
    IF Len(chunks) < k THEN [ok |-> FALSE, v |-> 0]
    ELSE once(split(strip(chunks[k]), "="), LAMBDA parts :
            IF Len(parts) < 2 THEN [ok |-> FALSE, v |-> 0]
            ELSE int(parts[2]))

\* The rule line: xvalue and yvalue, or ok = FALSE when it raises.
ruleLine(line) ==
    once(split(line, ","), LAMBDA chunks :
        once(<<headerValue(chunks, 1), headerValue(chunks, 2)>>, LAMBDA xy :
            [ok |-> xy[1].ok /\ xy[2].ok,
             xvalue |-> Bound(xy[1].v), yvalue |-> Bound(xy[2].v)]))

\* One pass of the loop over the lines.  The loop is left at a line that
\* ends in '!' and when a line raises: an empty line (line[0]) or a rule
\* line that does not parse.
lineStep(line, st) ==
    IF line = <<>> THEN [st EXCEPT !.brk = TRUE, !.status = "raise"]
    ELSE IF line[1] = "#" THEN st
    ELSE once(IF line[1] = "x"
              THEN once(ruleLine(line), LAMBDA rule :
                       [st EXCEPT !.status = IF rule.ok THEN "ok" ELSE "raise",
                                  !.brk = ~rule.ok,
                                  !.xvalue = rule.xvalue,
                                  !.yvalue = rule.yvalue])
              ELSE [st EXCEPT !.RLEstring = @ \o line],
              LAMBDA t :
                 IF t.status = "ok" /\ line[Len(line)] = "!"
                 THEN [t EXCEPT !.brk = TRUE,
                                !.RLEstring = SubSeq(@, 1, Len(@) - 1)]
                 ELSE t)

readLines(content) ==
    forRange(LAMBDA e, st, k : lineStep(e[k], st), content, 1, Len(content),
             [brk |-> FALSE, status |-> "ok", RLEstring |-> <<>>,
              xvalue |-> Unbound, yvalue |-> Unbound])

IsTag(ch) == ch \in {"b", "o"}

\* [0 for i in range(curCt)] or [1 for i in range(curCt)]
cellRun(curTag, curCt) ==
    [k \in 1..curCt |-> IF curTag = "b" THEN 0 ELSE 1]

\* int(tagCounts[i]), or 1 on ValueError.
tagCount(text) ==
    once(int(text), LAMBDA n : IF n.ok THEN n.v ELSE 1)

\* One row of the grid from one chunk of RLEstring.split('$').
decodeChunk(chunk, xvalue) ==
    once(forRange(LAMBDA e, st, k :
                      [brk |-> FALSE,
                       v |-> st.v \o cellRun(e.RLEtags[k],
                                             tagCount(e.tagCounts[k]))],
                  [RLEtags |-> SelectSeq(chunk, IsTag),
                   tagCounts |-> splitOn(chunk, {"b", "o"})],
                  1, Len(SelectSeq(chunk, IsTag)),
                  [brk |-> FALSE, v |-> <<>>]).v,
         LAMBDA gridLine :
            IF Len(gridLine) # xvalue
            THEN gridLine \o ZeroRow(xvalue - Len(gridLine))
            ELSE gridLine)

IsRagged(rows) == \E r \in 1..Len(rows) : Len(rows[r]) # Len(rows[1])

\* The grid rows of RLEstring under xvalue.
decodeRows(RLEstring, xvalue) ==
    once(<<split(RLEstring, "$"), xvalue>>, LAMBDA e :
        forRange(LAMBDA chunks, st, k :
                     [brk |-> FALSE,
                      grid |-> Append(st.grid, decodeChunk(chunks[k], e[2]))],
                 e[1], 1, Len(e[1]), [brk |-> FALSE, grid |-> <<>>]).grid)

\* parseRLE on the text of the file.  np.array on rows of unequal length
\* raises ValueError in numpy 1.24 and later and builds an array of lists
\* before it: raises says which numpy runs.  xvalue is read without
\* having been assigned when the file has no rule line (UnboundLocalError).
parseRLE(text, raises) ==
    once(fileLines(text), LAMBDA lines :
        once(readLines([k \in 1..Len(lines) |-> strip(lines[k])]),
             LAMBDA read :
                IF read.status = "raise" \/ ~read.xvalue.bound
                THEN [status |-> "raise", grid |-> <<>>]
                ELSE once(decodeRows(read.RLEstring, read.xvalue.v),
                          LAMBDA rows :
                             IF IsRagged(rows) /\ raises
                             THEN [status |-> "raise", grid |-> <<>>]
                             ELSE [status |-> "ok", grid |-> rows])))

(***************************************************************************)
(* Values of the variables a specification does not use.                    *)
(***************************************************************************)
NoGrid == <<>>
NoText == <<>>
NoResult == [status |-> "none", grid |-> <<>>]

DriverIdle ==
    /\ heap = <<>>
    /\ initialGrid = 0
    /\ startingState = 0
    /\ grid = 0
    /\ gridSize = 0
    /\ generations = 0
    /\ i = 0
    /\ extraSpace = 0
    /\ save = "n"

(***************************************************************************)
(* SpecGrid: addSpace and updateGrid as functions of their arguments.       *)
(***************************************************************************)
InitGrid ==
    /\ pc = "start"
    /\ arg \in GridsUpTo(MaxCells)
    /\ argN = 0
    /\ result = NoGrid
    /\ file = NoText
    /\ decoded = NoResult
    /\ raggedRaises = FALSE
    /\ DriverIdle

\* result = addSpace(arg, n)
AddSpaceCall ==
    /\ pc = "start"
    /\ \E n \in 0..MaxExtraSpace :
          /\ argN' = n
          /\ result' = addSpace(arg, n)
    /\ pc' = "addSpace"
    /\ UNCHANGED <<arg, file, decoded, raggedRaises, driverVars>>

\* result = updateGrid(arg)
UpdateGridCall ==
    /\ pc = "start"
    /\ result' = updateGrid(arg)
    /\ pc' = "updateGrid"
    /\ UNCHANGED <<arg, argN, file, decoded, raggedRaises, driverVars>>

NextGrid == AddSpaceCall \/ UpdateGridCall

SpecGrid == InitGrid /\ [][NextGrid]_vars

(***************************************************************************)
(* The rule and the padding, stated over positions.                         *)
(***************************************************************************)
MooreOffsets == ({-1, 0, 1} \X {-1, 0, 1}) \ {<<0, 0>>}

\* The number of live cells among the in-grid Moore neighbours of the cell
\* at row r, column c (1-based).
LiveMoore(g, r, c) ==
    Cardinality({d \in MooreOffsets :
                   /\ r + d[1] \in 1..Rows(g)
                   /\ c + d[2] \in 1..Cols(g)
                   /\ g[r + d[1]][c + d[2]] = 1})

RuleAlive(g, r, c) ==
    IF g[r][c] = 1 THEN LiveMoore(g, r, c) \in {2, 3}
    ELSE LiveMoore(g, r, c) = 3

\* C1: updateGrid returns a grid of the same dimensions; a live cell is
\* alive afterwards exactly when it had 2 or 3 live Moore neighbours in the
\* grid before the call, a dead cell exactly when it had 3, and positions
\* outside the grid (row -1 and column -1 included) count as dead.
C1_UpdateGridRule ==
    pc = "updateGrid" =>
        /\ Rows(result) = Rows(arg)
        /\ \A r \in 1..Rows(arg) :
              /\ Len(result[r]) = Cols(arg)
              /\ \A c \in 1..Cols(arg) :
                    /\ result[r][c] \in {0, 1}
                    /\ (result[r][c] = 1) <=> RuleAlive(arg, r, c)

\* A 3 x 3 grid whose live corner has 3 live neighbours and survives and
\* whose live centre has 8 and dies.
C1_Witness ==
    /\ pc = "updateGrid"
    /\ Rows(arg) = 3 /\ Cols(arg) = 3
    /\ arg[1][1] = 1 /\ LiveMoore(arg, 1, 1) = 3 /\ result[1][1] = 1
    /\ arg[2][2] = 1 /\ LiveMoore(arg, 2, 2) = 8 /\ result[2][2] = 0

\* C7: addSpace(g, n) is (rows + 2n) x (cols + 2n), its cell at (r+n, c+n)
\* is g's cell at (r, c), every other cell is dead, and addSpace(g, 0) = g.
C7_AddSpaceCentred ==
    pc = "addSpace" =>
        /\ Rows(result) = Rows(arg) + 2 * argN
        /\ \A r \in 1..Rows(result) :
              /\ Len(result[r]) = Cols(arg) + 2 * argN
              /\ \A c \in 1..Len(result[r]) :
                    result[r][c] =
                        IF /\ r - argN \in 1..Rows(arg)
                           /\ c - argN \in 1..Cols(arg)
                        THEN arg[r - argN][c - argN]
                        ELSE 0
        /\ (argN = 0 => result = arg)

\* Two rings around a grid that has a live cell and a dead cell.
C7_Witness ==
    /\ pc = "addSpace"
    /\ argN = 2
    /\ HasLive(arg)
    /\ \E r \in 1..Rows(arg) : \E c \in 1..Cols(arg) : arg[r][c] = 0
    /\ Rows(arg) # Cols(arg)

(***************************************************************************)
(* Spec: the driver, __main__ with createAnimation and saveRLE.  Arrays     *)
(* live in heap and the program's names hold array numbers, so that a name  *)
(* sharing an array with another one shows.                                 *)
(***************************************************************************)
\* ndarray.copy() with no new array made: the name shares the old one.
np_copy_shared(h, ref, fresh) == [heap |-> h, ref |-> ref]

\* ndarray.copy(): array number fresh gets the content of array ref.
np_copy(h, ref, fresh) ==
    [heap |-> [h EXCEPT ![fresh] = h[ref]], ref |-> fresh]

Init ==
    /\ pc = "main"
    /\ arg \in GridsUpTo(MaxInCells)
    /\ heap = <<arg, NoGrid, NoGrid>>
    /\ initialGrid = 1
    /\ startingState = 0
    /\ grid = 0
    /\ gridSize \in 0..MaxGridSize
    /\ generations \in 0..MaxGenerations
    /\ i = 0
    /\ extraSpace = 0
    /\ save = "n"
    /\ argN = 0
    /\ result = NoGrid
    /\ file = NoText
    /\ decoded = NoResult
    /\ raggedRaises = FALSE

\* startingState = initialGrid.copy()
Main ==
    /\ pc = "main"
    /\ LET cp == np_copy(heap, initialGrid, 2)
       IN /\ heap' = cp.heap
          /\ startingState' = cp.ref
    /\ pc' = "createAnimation"
    /\ UNCHANGED <<initialGrid, grid, gridSize, generations, i, extraSpace,
                   save, arg, argN, result, file, decoded, raggedRaises>>

\* createAnimation up to its loop: grid is inGrid padded by addSpace when a
\* side of inGrid is shorter than gridSize, and a copy of inGrid otherwise.
\* np.append in addSpace always makes a new array.
CreateAnimation ==
    /\ pc = "createAnimation"
    /\ LET inGrid == heap[initialGrid]
       IN IF Rows(inGrid) < gridSize \/ Cols(inGrid) < gridSize
          THEN /\ extraSpace' = Max(Abs(gridSize - Rows(inGrid)),
                                    Abs(gridSize - Cols(inGrid)))
               /\ heap' = [heap EXCEPT ![3] = addSpace(inGrid, extraSpace')]
               /\ grid' = 3
          ELSE /\ extraSpace' = 0
               /\ LET cp == np_copy(heap, initialGrid, 3)
                  IN /\ heap' = cp.heap
                     /\ grid' = cp.ref
    /\ i' = 0
    /\ pc' = "loop"
    /\ UNCHANGED <<initialGrid, startingState, gridSize, generations, save,
                   arg, argN, result, file, decoded, raggedRaises>>

\* One pass of the loop: updateGrid(grid) stores the next generation in the
\* array grid names.
Generation ==
    /\ pc = "loop"
    /\ i < generations
    /\ heap' = [heap EXCEPT ![grid] = updateGrid(heap[grid])]
    /\ i' = i + 1
    /\ UNCHANGED <<pc, initialGrid, startingState, grid, gridSize, generations,
                   extraSpace, save, arg, argN, result, file, decoded,
                   raggedRaises>>

\* saveRLE(startingState) after the loop: on 'y' writeRLE writes the global
\* startingState.
SaveRLE ==
    /\ pc = "loop"
    /\ i = generations
    /\ \E answer \in {"y", "n"} :
          /\ save' = answer
          /\ IF answer = "y"
             THEN LET w == writeRLE(heap[startingState])
                  IN /\ file' = w.text
                     /\ pc' = IF w.status = "ok" THEN "done" ELSE "raised"
             ELSE /\ file' = file
                  /\ pc' = "done"
    /\ UNCHANGED <<heap, initialGrid, startingState, grid, gridSize,
                   generations, i, extraSpace, arg, argN, result, decoded,
                   raggedRaises>>

Next == Main \/ CreateAnimation \/ Generation \/ SaveRLE

Spec == Init /\ [][Next]_vars

\* g with n rings of dead cells around it.
PaddedBy(g, n) ==
    [r \in 1..(Rows(g) + 2 * n) |->
        [c \in 1..(Cols(g) + 2 * n) |->
            IF r - n \in 1..Rows(g) /\ c - n \in 1..Cols(g)
            THEN g[r - n][c - n] ELSE 0]]

\* One application of the rule to g, and k of them.
RuleStep(g) ==
    [r \in 1..Rows(g) |->
        [c \in 1..Cols(g) |-> IF RuleAlive(g, r, c) THEN 1 ELSE 0]]

RECURSIVE RuleSteps(_, _)
RuleSteps(g, k) == IF k = 0 THEN g ELSE RuleStep(RuleSteps(g, k - 1))

\* How far a side of length n falls short of the requested size.
Deficit(n) == IF gridSize > n THEN gridSize - n ELSE 0

\* C8: when gridSize exceeds the row count or the column count of the input
\* grid, the number of rings added is the larger of the two deficits, a side
\* that is already long enough having deficit zero.
C8_RingsAreLargerDeficit ==
    (/\ pc \in {"loop", "done", "raised"}
     /\ (Rows(arg) < gridSize \/ Cols(arg) < gridSize))
    => extraSpace = Max(Deficit(Rows(arg)), Deficit(Cols(arg)))

\* C10: the driver never changes the starting grid: the array passed to
\* createAnimation and startingState both equal the grid first read, what
\* saveRLE writes is written from that grid, and after i passes of the loop
\* the working grid is the padded first grid after i applications of the
\* rule, with the padded dimensions.
C10_StartingGridKept ==
    /\ heap[initialGrid] = arg
    /\ (pc # "main" => heap[startingState] = arg)
    /\ (pc \in {"loop", "done", "raised"} =>
          /\ heap[grid] = RuleSteps(PaddedBy(arg, extraSpace), i)
          /\ Rows(heap[grid]) = Rows(arg) + 2 * extraSpace
          /\ Cols(heap[grid]) = Cols(arg) + 2 * extraSpace)
    /\ (pc \in {"done", "raised"} /\ save = "y" => file = writeRLE(arg).text)

\* Two generations have changed the unpadded working grid, and the starting
\* state has been written.
C10_Witness ==
    /\ pc = "done"
    /\ save = "y"
    /\ i = 2
    /\ extraSpace = 0
    /\ heap[grid] # arg
    /\ heap[grid] # RuleSteps(arg, 1)

(***************************************************************************)
(* SpecCodec: findBoundaries, and writeRLE followed by parseRLE of the file *)
(* written, on every small grid with a live cell and on rows wide enough to *)
(* wrap.  SpecParse: parseRLE on every short text under a rule line.        *)
(***************************************************************************)
\* A row of alternating single cells, live first, with one run of n cells
\* after the first p of them and q single cells after the run.
WideRow(p, n, q) ==
    [k \in 1..(p + n + q) |->
        IF k <= p THEN k % 2
        ELSE IF k <= p + n THEN (p + 1) % 2
        ELSE (p + 1 + (k - p - n)) % 2]

LiveRow(n) == [c \in 1..n |-> 1]

WideRows ==
    {WideRow(p, n, q) :
        p \in (LineLimit - WideUnder)..(LineLimit + WideOver),
        n \in {1, 2, WideRun},
        q \in 0..WideTail}

WideGrids ==
    UNION {{<<w>>, <<w, LiveRow(Len(w))>>, <<LiveRow(Len(w)), w>>} :
             w \in WideRows}

CodecGrids == {g \in GridsUpTo(MaxCells) : HasLive(g)} \union WideGrids

InitCodec ==
    /\ pc = "start"
    /\ arg \in CodecGrids
    /\ argN = 0
    /\ result = NoGrid
    /\ file = NoText
    /\ decoded = NoResult
    /\ raggedRaises \in BOOLEAN
    /\ DriverIdle

\* result = findBoundaries(arg)
FindBoundariesCall ==
    /\ pc = "start"
    /\ result' = findBoundaries(arg)
    /\ pc' = "findBoundaries"
    /\ UNCHANGED <<arg, argN, file, decoded, raggedRaises, driverVars>>

\* writeRLE(arg)
WriteRLECall ==
    /\ pc = "start"
    /\ LET w == writeRLE(arg)
       IN /\ file' = w.text
          /\ pc' = IF w.status = "ok" THEN "fileReady" ELSE "writeRaised"
    /\ UNCHANGED <<arg, argN, result, decoded, raggedRaises, driverVars>>

\* decoded = parseRLE(file)
ParseRLECall ==
    /\ pc = "fileReady"
    /\ decoded' = parseRLE(file, raggedRaises)
    /\ pc' = "parsed"
    /\ UNCHANGED <<arg, argN, result, file, raggedRaises, driverVars>>

NextCodec == FindBoundariesCall \/ WriteRLECall \/ ParseRLECall

SpecCodec == InitCodec /\ [][NextCodec]_vars

BodyAlphabet == {"b", "o", "$", "!", "2", "5", "z", "#", "\n"}

BodyTexts == UNION {[1..k -> BodyAlphabet] : k \in 0..MaxBodyLen}

InitParse ==
    /\ pc = "fileReady"
    /\ arg \in [x : 1..MaxHeaderX, y : 1..MaxHeaderY]
    /\ \E body \in BodyTexts :
          file = headerText(str(arg.x), str(arg.y)) \o body
    /\ argN = 0
    /\ result = NoGrid
    /\ decoded = NoResult
    /\ raggedRaises \in BOOLEAN
    /\ DriverIdle

NextParse == ParseRLECall

SpecParse == InitParse /\ [][NextParse]_vars

(***************************************************************************)
(* The bounding box of the live cells, and the crop to it.                  *)
(***************************************************************************)
SetMin(S) == CHOOSE a \in S : \A b \in S : a <= b
SetMax(S) == CHOOSE a \in S : \A b \in S : a >= b

LiveRowSet(g) ==
    {r \in 0..(Rows(g) - 1) : \E c \in 1..Cols(g) : g[r + 1][c] = 1}
LiveColSet(g) ==
    {c \in 0..(Cols(g) - 1) : \E r \in 1..Rows(g) : g[r][c + 1] = 1}

BoundingBox(g) ==
    [top |-> SetMin(LiveRowSet(g)), bot |-> SetMax(LiveRowSet(g)),
     minCol |-> SetMin(LiveColSet(g)), maxCol |-> SetMax(LiveColSet(g))]

Crop(g, b) ==
    [r \in 1..(b.bot - b.top + 1) |->
        [c \in 1..(b.maxCol - b.minCol + 1) |-> g[b.top + r][b.minCol + c]]]

\* C2: on a grid with a live cell findBoundaries returns the smallest and
\* largest row and the smallest and largest column that hold a live cell.
C2_FindBoundariesTight ==
    pc = "findBoundaries" =>
        LET b == BoundingBox(arg)
        IN result = [top |-> b.top, bot |-> b.bot,
                     minCol |-> Fin(b.minCol), maxCol |-> Fin(b.maxCol)]

\* C3: writeRLE of a grid with a live cell followed by parseRLE of the file
\* gives the grid cropped to the bounding box of its live cells, under a
\* rule line that carries the box's width and height.
C3_RoundTrip ==
    /\ pc # "writeRaised"
    /\ pc = "parsed" =>
          LET b == BoundingBox(arg)
              header == headerText(str(b.maxCol - b.minCol + 1),
                                   str(b.bot - b.top + 1))
          IN /\ decoded = [status |-> "ok", grid |-> Crop(arg, b)]
             /\ SubSeq(file, 1, Len(header)) = header

(***************************************************************************)
(* The lines of a written body against the tokens they are made of.         *)
(***************************************************************************)
\* The groups writeRLE writes: all of encodeGrid's but a dead run right
\* before the final '!'.
WrittenGroups(g) ==
    LET b == findBoundaries(g)
        groups == encodeGrid(g, b.top, b.bot, b.minCol.v, b.maxCol.v)
        n == Len(groups)
    IN IF n >= 2 /\ groups[n - 1][1] = "b"
       THEN SubSeq(groups, 1, n - 2) \o <<groups[n]>>
       ELSE groups

\* The lengths of s[1], s[1] \o s[2], ... up to the last but one.
InnerEnds(ss) ==
    {Len(concat(SubSeq(ss, 1, k))) : k \in 1..(Len(ss) - 1)}

\* The lines of the file after the rule line.
BodyLines(text) ==
    LET lines == split(text, "\n") IN SubSeq(lines, 2, Len(lines))

\* C6: every line of the body writeRLE writes has at most 70 characters,
\* the lines joined are the written tokens in order, and every line break
\* falls between two tokens, never inside one.
C6_LineWrap ==
    pc \in {"fileReady", "parsed"} =>
        LET lines == BodyLines(file)
            groups == WrittenGroups(arg)
            tokens == [k \in 1..Len(groups) |-> tokenText(groups[k])]
        IN /\ \A k \in 1..Len(lines) : Len(lines[k]) <= LineLimit
           /\ concat(lines) = concat(tokens)
           /\ InnerEnds(lines) \subseteq InnerEnds(tokens)

\* A counted run has been moved whole to the second line although its count
\* alone would have fitted on the first.
C6_Witness ==
    /\ pc = "fileReady"
    /\ LET lines == BodyLines(file)
       IN /\ Len(lines) >= 2
          /\ Len(lines[1]) < LineLimit
          /\ IsDigit(lines[2][1])

(***************************************************************************)
(* What parseRLE is claimed to reject.                                      *)
(***************************************************************************)
\* A line that is neither empty nor a comment nor a rule line.
IsBodyLine(line) ==
    LET t == strip(line) IN t # <<>> /\ t[1] \notin {"#", "x"}

\* The places <<line, column>> of the '!' characters of the body lines.
BangPlaces(text) ==
    LET lines == split(text, "\n")
    IN {p \in (1..Len(lines)) \X (1..Len(text)) :
          /\ IsBodyLine(lines[p[1]])
          /\ p[2] <= Len(lines[p[1]])
          /\ lines[p[1]][p[2]] = "!"}

\* The text up to and including the first '!' of the body, or all of it.
UpToFirstBang(text) ==
    LET lines == split(text, "\n")
        places == BangPlaces(text)
        first == CHOOSE p \in places :
                    \A q \in places :
                        p[1] < q[1] \/ (p[1] = q[1] /\ p[2] <= q[2])
        before == concat([k \in 1..(first[1] - 1) |-> lines[k] \o <<"\n">>])
    IN IF places = {} THEN text
       ELSE before \o SubSeq(lines[first[1]], 1, first[2])

\* C4: parseRLE never returns a grid whose number of rows differs from the
\* rule line's y or that has a row whose length differs from its x.
C4_NoWronglySizedGrid ==
    (pc = "parsed" /\ decoded.status = "ok") =>
        /\ Len(decoded.grid) = arg.y
        /\ \A r \in 1..Len(decoded.grid) : Len(decoded.grid[r]) = arg.x

\* C5: text after the first '!' of the body has no effect: the file decodes
\* as the file cut right after that '!' does.
C5_StopsAtFirstBang ==
    pc = "parsed" => decoded = parseRLE(UpToFirstBang(file), raggedRaises)

\* C9: a body with a character other than b, o, $, ! and the digits, before
\* its first '!', is a decode error.
C9_ForeignCharacterRejected ==
    (/\ pc = "parsed"
     /\ LET lines == BodyLines(UpToFirstBang(file))
        IN \E k \in 1..Len(lines) :
              /\ IsBodyLine(lines[k])
              /\ \E m \in 1..Len(lines[k]) :
                    /\ lines[k][m] \notin {"b", "o", "$", "!"}
                    /\ ~IsDigit(lines[k][m]))
    => decoded.status = "raise"

====
